---- MODULE Spec2Model ----
(***************************************************************************)
(* Response-delivery pipeline of the bot (src/main.rs): the output merger  *)
(* merge_output_and_errors, the truncator trim_text and the acknowledgment *)
(* controller acknowledge_fail / acknowledge_success / on_error.           *)
(*                                                                         *)
(* Text is a sequence of UTF-8 bytes (Rust's str::len, is_char_boundary    *)
(* and slicing all count bytes).                                           *)
(***************************************************************************)
EXTENDS Integers, Sequences, FiniteSets, TLC

VARIABLES
    \* ---- trim_text ----
    body_in,               \* the text_body argument as passed by the caller
    text_end,              \* the text_end argument
    text_body,             \* `mut text_body: &str` (re-sliced by the char-limit step)
    text_body_owned,       \* the shadowing `let text_body: String` of the line step
    truncation_msg_maybe,  \* Err(future) / Ok(msg)
    awaited,               \* the values the truncation_msg_future resolved to, one per await
    trim_pc,               \* position of the trim_text call
    trim_result,           \* the returned String
    \* ---- merge_output_and_errors ----
    output, errors, merge_pc, merged,
    \* ---- acknowledge_fail / on_error / acknowledge_success ----
    ack_fn,          \* the function that was called
    ack_mode,        \* variant of the poise::Context: "Prefix" or "Application"
    error,           \* the poise::FrameworkError passed in
    has_help,        \* ctx.command().help_text is Some
    guild,           \* "none" (no guild id), "uncached" or "cached"
    guild_emojis,    \* names of the emojis of the cached guild
    emoji,           \* result of find_custom_emoji: <<>> for None, <<name>> for Some
    calls,           \* the platform calls made so far, in order, with their outcome
    logs,            \* the log::warn! entries written so far
    ack_pc,          \* position of the call
    ack_ret,         \* "none" while running, then "unit", "Ok" or "Err"
    on_error_calls,  \* number of calls of on_error
    elapsed,         \* seconds slept so far in tokio::time::sleep
    \* ---- event_handler ----
    ev_stream,       \* the platform events not yet handed to the handler
    ev_cur,          \* the event the running event_handler call was given
    ev_pc,           \* position of that call: "idle", "showcase", "sleep", "grant"
    slept,           \* minutes slept so far by that call
    delivered,       \* number of events handed to the handler so far
    showcase_log,    \* the showcase calls that returned, with their outcome
    grants,          \* the add_member_role calls that returned, with their outcome
    ev_results       \* what each finished event_handler call returned

trimVars  == <<body_in, text_end, text_body, text_body_owned, truncation_msg_maybe,
               awaited, trim_pc, trim_result>>
mergeVars == <<output, errors, merge_pc, merged>>
ackVars   == <<ack_fn, ack_mode, error, has_help, guild, guild_emojis, emoji, calls,
               logs, ack_pc, ack_ret, on_error_calls, elapsed>>
eventVars == <<ev_stream, ev_cur, ev_pc, slept, delivered, showcase_log, grants,
               ev_results>>
vars      == <<trimVars, mergeVars, ackVars, eventVars>>

(***************************************************************************)
(* Program constants                                                       *)
(***************************************************************************)
MessageLimit == 2000
MAX_OUTPUT_LINES == 45
ACK_DELETE_DELAY == 3
RUSTIFICATION_DELAY == 30

(***************************************************************************)
(* Bounds of the input families                                            *)
(***************************************************************************)
Slack == 2            \* body lengths within Slack of every critical length
MaxNoticeLen == 3     \* short notices have 0..MaxNoticeLen bytes
LongNoticeLen == 20   \* one longer notice
MaxStrLen == 2        \* merge inputs have at most MaxStrLen bytes
MaxEvents == 2        \* the platform delivers at most MaxEvents events

(***************************************************************************)
(* Text helpers                                                            *)
(***************************************************************************)
Rep(u, n) == [i \in 1..(n * Len(u)) |-> u[((i - 1) % Len(u)) + 1]]

Max(a, b) == IF a >= b THEN a ELSE b

IsPrefix(p, s) == Len(p) <= Len(s) /\ SubSeq(s, 1, Len(p)) = p

IsSuffix(p, s) == Len(p) <= Len(s) /\ SubSeq(s, Len(s) - Len(p) + 1, Len(s)) = p

\* usize::saturating_sub
saturating_sub(a, b) == IF a >= b THEN a - b ELSE 0

\* str::is_char_boundary: 0 and len are boundaries, beyond len is none, inside
\* the string a byte that is no UTF-8 continuation byte (10xxxxxx) starts a char.
is_char_boundary(s, index) ==
    IF index = 0 THEN TRUE
    ELSE IF index >= Len(s) THEN index = Len(s)
    ELSE s[index + 1] < 128 \/ s[index + 1] >= 192

\* a search for the boundary that walks forward instead of back
RECURSIVE cut_off_point_forward(_, _)
cut_off_point_forward(s, c) ==
    IF is_char_boundary(s, c) THEN c ELSE cut_off_point_forward(s, c + 1)

\* a cut that never moves back to a char boundary
cut_off_point_unchecked(s, c) == c

\* `while !text_body.is_char_boundary(cut_off_point) { cut_off_point -= 1; }`
RECURSIVE cut_off_point(_, _)
cut_off_point(s, c) ==
    IF is_char_boundary(s, c) THEN c ELSE cut_off_point(s, c - 1)

\* index of the first "\n" of s, 0 when there is none
FirstNewline(s) ==
    IF \E i \in 1..Len(s) : s[i] = 10
    THEN CHOOSE i \in 1..Len(s) : s[i] = 10 /\ \A j \in 1..(i - 1) : s[j] # 10
    ELSE 0

\* what str::lines does to one piece that ended in "\n": one trailing "\r" goes too
StripCR(l) == IF l # <<>> /\ l[Len(l)] = 13 THEN SubSeq(l, 1, Len(l) - 1) ELSE l

\* text_body.lines().count(): one line per "\n", plus the unterminated rest if any
LinesCount(s) ==
    Cardinality({i \in 1..Len(s) : s[i] = 10})
        + (IF s # <<>> /\ s[Len(s)] # 10 THEN 1 ELSE 0)

\* text_body.lines().take(k).collect::<Vec<_>>()
RECURSIVE LinesTake(_, _)
LinesTake(s, k) ==
    IF k = 0 \/ s = <<>> THEN <<>>
    ELSE LET i == FirstNewline(s)
         IN  IF i = 0 THEN <<s>>
             ELSE <<StripCR(SubSeq(s, 1, i - 1))>>
                      \o LinesTake(SubSeq(s, i + 1, Len(s)), k - 1)

\* [&str]::join("\n")
RECURSIVE Join(_)
Join(ls) ==
    IF ls = <<>> THEN <<>>
    ELSE IF Len(ls) = 1 THEN ls[1]
    ELSE ls[1] \o <<10>> \o Join(Tail(ls))

(***************************************************************************)
(* trim_text                                                               *)
(***************************************************************************)
ErrFuture == [ok |-> FALSE, msg |-> <<>>]
OkMsg(m)  == [ok |-> TRUE, msg |-> m]

\* the body after the char-limit step, for the notice `msg`
CharCut(body, end, msg) ==
    LET available_space ==
            saturating_sub(saturating_sub(MessageLimit, Len(end)), Len(msg))
    IN  SubSeq(body, 1, cut_off_point(body, available_space))

\* a line-limit step that keeps one line too many
LineCutOneMore(body) == Join(LinesTake(body, MAX_OUTPUT_LINES + 1))

\* the body after the line-limit step
LineCut(body) == Join(LinesTake(body, MAX_OUTPUT_LINES))

\* an assembly that puts the notice in front of the closing delimiter
AssembleNoticeFirst(body, end, maybe) ==
    IF maybe.ok THEN body \o maybe.msg \o end ELSE body \o end

\* the final format!
Assemble(body, end, maybe) ==
    IF maybe.ok THEN body \o end \o maybe.msg ELSE body \o end

\* inputs: bodies are a unit repeated up to a length and padded with "a"
Units ==
    { <<97>>,                          \* "a"
      <<195, 169>>,                    \* U+00E9, 2 bytes
      <<226, 130, 172>>,               \* U+20AC, 3 bytes
      <<240, 159, 152, 128>>,          \* U+1F600, 4 bytes
      <<10>>,                          \* empty lines
      <<97, 10>>,                      \* "a\n"
      <<97, 13, 10>>,                  \* "a\r\n"
      Rep(<<97>>, 43) \o <<10>>,       \* a 43-column line
      Rep(<<97>>, 44) \o <<10>> }      \* a 44-column line

Fill(unit, n) == Rep(unit, n \div Len(unit)) \o Rep(<<97>>, n % Len(unit))

EndLens == {0, 3, MessageLimit - 10, MessageLimit + 1}
Ends == {Rep(<<96>>, n) : n \in EndLens}

CriticalLens ==
    {0, MessageLimit + 500, 2 * MessageLimit}
        \cup {Max(0, MessageLimit - e) : e \in EndLens}
        \cup {k * MAX_OUTPUT_LINES : k \in 1..3}
BodyLens ==
    {n \in 0..(2 * MessageLimit + Slack) :
        \E c \in CriticalLens : n >= c - Slack /\ n <= c + Slack}
Bodies == {Fill(u, n) : u \in Units, n \in BodyLens}

NoticeLens == (0..MaxNoticeLen) \cup {LongNoticeLen}
Notices == {Rep(<<116>>, n) : n \in NoticeLens}

TrimCalled ==
    /\ body_in \in Bodies
    /\ text_end \in Ends
    /\ text_body = body_in
    /\ text_body_owned = <<>>
    /\ truncation_msg_maybe = ErrFuture
    /\ awaited = <<>>
    /\ trim_pc = "start"
    /\ trim_result = <<>>

\* lines 246-250
Finish(owned, maybe) ==
    /\ text_body_owned' = owned
    /\ truncation_msg_maybe' = maybe
    /\ trim_result' = Assemble(owned, text_end, maybe)
    /\ trim_pc' = "done"

\* a line check that already triggers at MAX_OUTPUT_LINES lines
LineStepAtLimit(body, maybe) ==
    IF LinesCount(body) >= MAX_OUTPUT_LINES
    THEN IF maybe.ok
         THEN Finish(LineCut(body), maybe)
         ELSE /\ trim_pc' = "await_lines"
              /\ UNCHANGED <<text_body_owned, truncation_msg_maybe, trim_result>>
    ELSE Finish(body, maybe)

\* lines 231-250, entered with the body `body` and the notice state `maybe`;
\* suspends on the future when the line limit is hit with no notice yet.
LineStep(body, maybe) ==
    IF LinesCount(body) > MAX_OUTPUT_LINES
    THEN IF maybe.ok
         THEN Finish(LineCut(body), maybe)
         ELSE /\ trim_pc' = "await_lines"
              /\ UNCHANGED <<text_body_owned, truncation_msg_maybe, trim_result>>
    ELSE Finish(body, maybe)

\* lines 207-210: the call up to its first suspension point (or to the end)
TrimStart ==
    /\ trim_pc = "start"
    /\ IF Len(text_body) + Len(text_end) > MessageLimit
       THEN /\ trim_pc' = "await_chars"
            /\ UNCHANGED <<text_body, text_body_owned, truncation_msg_maybe,
                           trim_result>>
       ELSE /\ LineStep(text_body, truncation_msg_maybe)
            /\ UNCHANGED text_body
    /\ UNCHANGED <<body_in, text_end, awaited>>

\* a char-limit step that drops the notice it awaited (line 227 left out)
TrimCharsResolvedForgets ==
    /\ trim_pc = "await_chars"
    /\ \E msg \in Notices :
          LET cut == CharCut(text_body, text_end, msg)
          IN  /\ awaited' = Append(awaited, msg)
              /\ text_body' = cut
              /\ LineStep(cut, ErrFuture)
    /\ UNCHANGED <<body_in, text_end>>

\* lines 211-228 then 231-250: the future awaited in the char-limit step resolves
TrimCharsResolved ==
    /\ trim_pc = "await_chars"
    /\ \E msg \in Notices :
          LET cut == CharCut(text_body, text_end, msg)
          IN  /\ awaited' = Append(awaited, msg)
              /\ text_body' = cut
              /\ LineStep(cut, OkMsg(msg))
    /\ UNCHANGED <<body_in, text_end>>

\* lines 232-250: the future awaited in the line-limit step resolves
TrimLinesResolved ==
    /\ trim_pc = "await_lines"
    /\ \E msg \in Notices :
          /\ awaited' = Append(awaited, msg)
          /\ Finish(LineCut(text_body), OkMsg(msg))
    /\ UNCHANGED <<body_in, text_end, text_body>>

NextTrim ==
    \/ TrimStart /\ UNCHANGED <<mergeVars, ackVars, eventVars>>
    \/ TrimCharsResolved /\ UNCHANGED <<mergeVars, ackVars, eventVars>>
    \/ TrimLinesResolved /\ UNCHANGED <<mergeVars, ackVars, eventVars>>

MergeIdle ==
    /\ output = <<>>
    /\ errors = <<>>
    /\ merge_pc = "idle"
    /\ merged = <<>>

NoEvent == [type |-> "none", id |-> 0, guild |-> 0]

EventIdle ==
    /\ ev_stream = <<>>
    /\ ev_cur = NoEvent
    /\ ev_pc = "idle"
    /\ slept = 0
    /\ delivered = 0
    /\ showcase_log = <<>>
    /\ grants = <<>>
    /\ ev_results = <<>>

AckIdle ==
    /\ ack_fn = "none"
    /\ ack_mode = "Prefix"
    /\ error = [class |-> "none", codeblock |-> FALSE]
    /\ has_help = FALSE
    /\ guild = "none"
    /\ guild_emojis = {}
    /\ emoji = <<>>
    /\ calls = <<>>
    /\ logs = <<>>
    /\ ack_pc = "idle"
    /\ ack_ret = "none"
    /\ on_error_calls = 0
    /\ elapsed = 0

InitTrim == TrimCalled /\ MergeIdle /\ AckIdle /\ EventIdle

SpecTrim == InitTrim /\ [][NextTrim]_vars

(***************************************************************************)
(* merge_output_and_errors                                                 *)
(***************************************************************************)
\* char::is_whitespace on the ASCII range (White_Space: TAB..CR and SPACE)
is_whitespace(b) == b \in {9, 10, 11, 12, 13, 32}

RECURSIVE trim_start(_)
trim_start(s) == IF s # <<>> /\ is_whitespace(s[1]) THEN trim_start(Tail(s)) ELSE s

RECURSIVE trim_end(_)
trim_end(s) ==
    IF s # <<>> /\ is_whitespace(s[Len(s)])
    THEN trim_end(SubSeq(s, 1, Len(s) - 1))
    ELSE s

\* str::trim
trim(s) == trim_end(trim_start(s))

\* a merge without the placeholder for two empty inputs
merge_without_placeholder(out, errs) ==
    LET o == trim(out)
        e == trim(errs)
    IN  IF e = <<>> THEN o
        ELSE IF o = <<>> THEN e
        ELSE e \o <<10, 10>> \o o

\* a merge that puts the output above the errors
merge_output_first(out, errs) ==
    LET o == trim(out)
        e == trim(errs)
    IN  IF o = <<>> /\ e = <<>> THEN <<32>>
        ELSE IF e = <<>> THEN o
        ELSE IF o = <<>> THEN e
        ELSE o \o <<10, 10>> \o e

merge_output_and_errors(out, errs) ==
    LET o == trim(out)
        e == trim(errs)
    IN  IF o = <<>> /\ e = <<>> THEN <<32>>
        ELSE IF e = <<>> THEN o
        ELSE IF o = <<>> THEN e
        ELSE e \o <<10, 10>> \o o

\* inputs: every text of at most MaxStrLen bytes over " ", "\n", "a", "b"
Alphabet == {32, 10, 97, 98}
Strs == UNION {[1..k -> Alphabet] : k \in 0..MaxStrLen}

MergeCalled ==
    /\ output \in Strs
    /\ errors \in Strs
    /\ merge_pc = "start"
    /\ merged = <<>>

Merge ==
    /\ merge_pc = "start"
    /\ merged' = merge_output_and_errors(output, errors)
    /\ merge_pc' = "done"
    /\ UNCHANGED <<output, errors>>

TrimIdle ==
    /\ body_in = <<>>
    /\ text_end = <<>>
    /\ text_body = <<>>
    /\ text_body_owned = <<>>
    /\ truncation_msg_maybe = ErrFuture
    /\ awaited = <<>>
    /\ trim_pc = "idle"
    /\ trim_result = <<>>

NextMerge == Merge /\ UNCHANGED <<trimVars, ackVars, eventVars>>

InitMerge == MergeCalled /\ TrimIdle /\ AckIdle /\ EventIdle

SpecMerge == InitMerge /\ [][NextMerge]_vars

(***************************************************************************)
(* acknowledge_fail, on_error, acknowledge_success                         *)
(***************************************************************************)
Modes == {"Prefix", "Application"}

\* the FrameworkError variants the code tells apart; codeblock: the parse error
\* is a poise::CodeBlockError
Errors ==
    { [class |-> "Command", codeblock |-> FALSE],
      [class |-> "ArgumentParse", codeblock |-> FALSE],
      [class |-> "ArgumentParse", codeblock |-> TRUE],
      [class |-> "Other", codeblock |-> FALSE] }
NoError == [class |-> "none", codeblock |-> FALSE]

\* acknowledge_success(ctx, "rustOk", fallback)
EmojiName == "rustOk"
FallbackEmoji == "fallback"
EmojiNames == {"rustOk", "RUSTOK", "ferris"}
\* str::eq_ignore_ascii_case
eq_ignore_ascii_case(a, b) ==
    LET lower == [n \in EmojiNames |-> IF n = "RUSTOK" THEN "rustok"
                                       ELSE IF n = "rustOk" THEN "rustok" ELSE n]
    IN  lower[a] = lower[b]

\* find_custom_emoji: None without a guild id or a cached guild, else some emoji
\* of the guild whose name matches (the emojis are iterated in HashMap order)
find_custom_emoji(g, names) ==
    LET hits == {n \in names : eq_ignore_ascii_case(n, EmojiName)}
    IN  IF g # "cached" \/ hits = {} THEN {<<>>} ELSE {<<n>> : n \in hits}

\* the emoji used: the custom one if found, else the fallback
EmojiOrFallback(e) == IF e # <<>> THEN e ELSE <<FallbackEmoji>>

Call(op, arg, ok) == [op |-> op, arg |-> arg, ok |-> ok]

AckCalled ==
    /\ ack_fn \in {"acknowledge_fail", "on_error", "acknowledge_success"}
    /\ ack_mode \in Modes
    /\ IF ack_fn = "acknowledge_success"
       THEN /\ error = NoError
            /\ has_help = FALSE
            /\ guild \in {"none", "uncached", "cached"}
            /\ guild_emojis \in SUBSET EmojiNames
            /\ guild # "cached" => guild_emojis = {}
       ELSE /\ error \in Errors
            /\ has_help \in BOOLEAN
            /\ error.class # "ArgumentParse" => has_help = FALSE
            /\ guild = "none"
            /\ guild_emojis = {}
    /\ emoji = <<>>
    /\ calls = <<>>
    /\ logs = <<>>
    /\ ack_pc = "start"
    /\ ack_ret = "none"
    /\ on_error_calls = 0
    /\ elapsed = 0

AckInputs == <<ack_fn, ack_mode, error, has_help, guild, guild_emojis>>

Return(ret) ==
    /\ ack_pc' = "done"
    /\ ack_ret' = ret

\* on_error, lines 59-85, up to its platform call
OnErrorEnter(log) ==
    /\ on_error_calls' = on_error_calls + 1
    /\ logs' = Append(log, "Encountered error")
    /\ IF error.class = "ArgumentParse"
       THEN ack_pc' = "on_error_parse_say" /\ UNCHANGED ack_ret
       ELSE IF error.class = "Command"
       THEN ack_pc' = "on_error_command_say" /\ UNCHANGED ack_ret
       ELSE Return("unit")

\* an acknowledge_fail that hands every error to on_error as well
AckFailStartAlwaysReports ==
    /\ ack_fn = "acknowledge_fail"
    /\ ack_pc = "start"
    /\ OnErrorEnter(logs)
    /\ UNCHANGED <<AckInputs, emoji, calls, elapsed>>

\* acknowledge_fail, lines 31-57, up to its platform call
AckFailStart ==
    /\ ack_fn = "acknowledge_fail"
    /\ ack_pc = "start"
    /\ IF error.class = "Command"
       THEN /\ logs' = Append(logs, "Reacting with red cross because of error")
            /\ ack_pc' = IF ack_mode = "Prefix" THEN "fail_react" ELSE "fail_say"
            /\ UNCHANGED <<ack_ret, on_error_calls>>
       ELSE OnErrorEnter(logs)
    /\ UNCHANGED <<AckInputs, emoji, calls, elapsed>>

\* lines 37-43: ctx.msg.react(..) returned
AckFailReactDone ==
    /\ ack_pc = "fail_react"
    /\ \E ok \in BOOLEAN :
          /\ calls' = Append(calls, Call("react", <<"cross">>, ok))
          /\ logs' = IF ok THEN logs
                     ELSE Append(logs, "Failed to react with red cross")
    /\ Return("unit")
    /\ UNCHANGED <<AckInputs, emoji, on_error_calls, elapsed>>

\* lines 46-51: ctx.say(format!("<cross> {}", error)) returned
AckFailSayDone ==
    /\ ack_pc = "fail_say"
    /\ \E ok \in BOOLEAN :
          /\ calls' = Append(calls, Call("say", <<"cross", " ", "error">>, ok))
          /\ logs' = IF ok THEN logs
                     ELSE Append(logs, "Failed to send failure acknowledgment slash command response")
    /\ Return("unit")
    /\ UNCHANGED <<AckInputs, emoji, on_error_calls, elapsed>>

\* on_error called by the framework (line 342)
OnErrorStart ==
    /\ ack_fn = "on_error"
    /\ ack_pc = "start"
    /\ OnErrorEnter(logs)
    /\ UNCHANGED <<AckInputs, emoji, calls, elapsed>>

\* a response that looks at the help text before the kind of parse error
ParseResponseHelpFirst ==
    IF has_help THEN <<"**", "error", "**", "\n", "help">>
    ELSE IF error.codeblock THEN <<"Missing code block">>
    ELSE <<"error">>

\* lines 62-75
ParseResponse ==
    IF error.codeblock THEN <<"Missing code block">>
    ELSE IF has_help THEN <<"**", "error", "**", "\n", "help">>
    ELSE <<"error">>

\* lines 77-79: ctx.say(response) returned
OnErrorParseSayDone ==
    /\ ack_pc = "on_error_parse_say"
    /\ \E ok \in BOOLEAN :
          /\ calls' = Append(calls, Call("say", ParseResponse, ok))
          /\ logs' = IF ok THEN logs ELSE Append(logs, "say failed")
    /\ Return("unit")
    /\ UNCHANGED <<AckInputs, emoji, on_error_calls, elapsed>>

\* lines 80-84: ctx.say(error.to_string()) returned
OnErrorCommandSayDone ==
    /\ ack_pc = "on_error_command_say"
    /\ \E ok \in BOOLEAN :
          /\ calls' = Append(calls, Call("say", <<"error">>, ok))
          /\ logs' = IF ok THEN logs ELSE Append(logs, "say failed")
    /\ Return("unit")
    /\ UNCHANGED <<AckInputs, emoji, on_error_calls, elapsed>>

\* acknowledge_success, lines 167-168 and 177-180
AckSuccessStart ==
    /\ ack_fn = "acknowledge_success"
    /\ ack_pc = "start"
    /\ emoji' \in find_custom_emoji(guild, guild_emojis)
    /\ ack_pc' = IF ack_mode = "Prefix" THEN "success_react" ELSE "success_say"
    /\ UNCHANGED <<AckInputs, calls, logs, ack_ret, on_error_calls, elapsed>>

\* lines 170-174: ctx.msg.react(..).await? returned
AckSuccessReactDone ==
    /\ ack_pc = "success_react"
    /\ \E ok \in BOOLEAN :
          /\ calls' = Append(calls, Call("react", EmojiOrFallback(emoji), ok))
          /\ Return(IF ok THEN "Ok" ELSE "Err")
    /\ UNCHANGED <<AckInputs, emoji, logs, on_error_calls, elapsed>>

\* line 181: ctx.say(msg_content) returned; on Ok the sleep of line 182 starts
AckSuccessSayDone ==
    /\ ack_pc = "success_say"
    /\ \E ok \in BOOLEAN :
          /\ calls' = Append(calls, Call("say", EmojiOrFallback(emoji), ok))
          /\ IF ok
             THEN ack_pc' = "success_sleep" /\ UNCHANGED ack_ret
             ELSE Return("Ok")
    /\ UNCHANGED <<AckInputs, emoji, logs, on_error_calls, elapsed>>

\* line 182: one second of the sleep passes; after the last one line 183 runs
SleepTick ==
    /\ ack_pc = "success_sleep"
    /\ elapsed < ACK_DELETE_DELAY
    /\ elapsed' = elapsed + 1
    /\ ack_pc' = IF elapsed + 1 = ACK_DELETE_DELAY THEN "success_message"
                 ELSE "success_sleep"
    /\ UNCHANGED <<AckInputs, emoji, calls, logs, ack_ret, on_error_calls>>

\* line 183: reply.message().await? returned
AckSuccessMessageDone ==
    /\ ack_pc = "success_message"
    /\ \E ok \in BOOLEAN :
          /\ calls' = Append(calls, Call("message", <<>>, ok))
          /\ IF ok
             THEN ack_pc' = "success_delete" /\ UNCHANGED ack_ret
             ELSE Return("Err")
    /\ UNCHANGED <<AckInputs, emoji, logs, on_error_calls, elapsed>>

\* line 185: msg.delete(..) returned, its result dropped
AckSuccessDeleteDone ==
    /\ ack_pc = "success_delete"
    /\ \E ok \in BOOLEAN :
          calls' = Append(calls, Call("delete", <<>>, ok))
    /\ Return("Ok")
    /\ UNCHANGED <<AckInputs, emoji, logs, on_error_calls, elapsed>>

NextAck ==
    \/ AckFailStart /\ UNCHANGED <<trimVars, mergeVars, eventVars>>
    \/ AckFailReactDone /\ UNCHANGED <<trimVars, mergeVars, eventVars>>
    \/ AckFailSayDone /\ UNCHANGED <<trimVars, mergeVars, eventVars>>
    \/ OnErrorStart /\ UNCHANGED <<trimVars, mergeVars, eventVars>>
    \/ OnErrorParseSayDone /\ UNCHANGED <<trimVars, mergeVars, eventVars>>
    \/ OnErrorCommandSayDone /\ UNCHANGED <<trimVars, mergeVars, eventVars>>
    \/ AckSuccessStart /\ UNCHANGED <<trimVars, mergeVars, eventVars>>
    \/ AckSuccessReactDone /\ UNCHANGED <<trimVars, mergeVars, eventVars>>
    \/ AckSuccessSayDone /\ UNCHANGED <<trimVars, mergeVars, eventVars>>
    \/ SleepTick /\ UNCHANGED <<trimVars, mergeVars, eventVars>>
    \/ AckSuccessMessageDone /\ UNCHANGED <<trimVars, mergeVars, eventVars>>
    \/ AckSuccessDeleteDone /\ UNCHANGED <<trimVars, mergeVars, eventVars>>

InitAck == AckCalled /\ TrimIdle /\ MergeIdle /\ EventIdle

SpecAck == InitAck /\ [][NextAck]_vars

(***************************************************************************)
(* event_handler                                                           *)
(***************************************************************************)
MsgIds == {1, 2}
Members == {1, 2}
Guilds == {1, 2}

\* the messages for which the showcase collaborator has a derived message
Linked == {1}

Events ==
    {[type |-> t, id |-> i, guild |-> 0] :
            t \in {"MessageUpdate", "MessageDelete"}, i \in MsgIds}
        \cup {[type |-> "GuildMemberAddition", id |-> m, guild |-> g] :
                  m \in Members, g \in Guilds}
        \cup {[type |-> "Other", id |-> 0, guild |-> 0]}

Streams == UNION {[1..n -> Events] : n \in 0..MaxEvents}

EventCalled ==
    /\ ev_stream \in Streams
    /\ ev_cur = NoEvent
    /\ ev_pc = "idle"
    /\ slept = 0
    /\ delivered = 0
    /\ showcase_log = <<>>
    /\ grants = <<>>
    /\ ev_results = <<>>

\* showcase::try_update_showcase_message / try_delete_showcase_message: without
\* a recorded link nothing is called and the result is Ok; with one, the update
\* or delete of the derived message succeeds or fails with some error
ShowcaseOutcomes(ev) ==
    IF ev.id \in Linked
    THEN {[called |-> TRUE, ok |-> TRUE, err |-> "none"],
          [called |-> TRUE, ok |-> FALSE, err |-> "e1"],
          [called |-> TRUE, ok |-> FALSE, err |-> "e2"]}
    ELSE {[called |-> FALSE, ok |-> TRUE, err |-> "none"]}

\* the event handler hook hands each event to event_handler and awaits the
\* future it returns: the next event is handed over when no call is running
DispatcherFree == ev_pc = "idle"

HandlerReturns(idx, ev, ret, err) ==
    /\ ev_results' = Append(ev_results, [idx |-> idx, ev |-> ev, ret |-> ret, err |-> err])
    /\ ev_cur' = NoEvent
    /\ ev_pc' = "idle"

\* line 385-389 and 87-98: the hook calls event_handler, which runs to its
\* first await (or, for the other variants, to Ok(()))
Deliver ==
    /\ DispatcherFree
    /\ ev_stream # <<>>
    /\ LET ev == Head(ev_stream)
       IN  /\ ev_stream' = Tail(ev_stream)
           /\ delivered' = delivered + 1
           /\ IF ev.type \in {"MessageUpdate", "MessageDelete"}
              THEN /\ ev_cur' = ev
                   /\ ev_pc' = "showcase"
                   /\ UNCHANGED <<slept, ev_results>>
              ELSE IF ev.type = "GuildMemberAddition"
              THEN /\ ev_cur' = ev
                   /\ ev_pc' = "sleep"
                   /\ slept' = 0
                   /\ UNCHANGED ev_results
              ELSE /\ HandlerReturns(delivered + 1, ev, "Ok", "none")
                   /\ UNCHANGED slept
    /\ UNCHANGED <<showcase_log, grants>>

\* a handler that drops the collaborator's error
ShowcaseReturnedSwallows ==
    /\ ev_pc = "showcase"
    /\ \E o \in ShowcaseOutcomes(ev_cur) :
          /\ showcase_log' = Append(showcase_log,
                 [idx |-> delivered, type |-> ev_cur.type, id |-> ev_cur.id,
                  called |-> o.called, ok |-> o.ok, err |-> o.err])
          /\ HandlerReturns(delivered, ev_cur, "Ok", "none")
    /\ UNCHANGED <<ev_stream, slept, delivered, grants>>

\* lines 89-94 and 117: the showcase call returned; `?` returns its error
ShowcaseReturned ==
    /\ ev_pc = "showcase"
    /\ \E o \in ShowcaseOutcomes(ev_cur) :
          /\ showcase_log' = Append(showcase_log,
                 [idx |-> delivered, type |-> ev_cur.type, id |-> ev_cur.id,
                  called |-> o.called, ok |-> o.ok, err |-> o.err])
          /\ IF o.ok
             THEN HandlerReturns(delivered, ev_cur, "Ok", "none")
             ELSE HandlerReturns(delivered, ev_cur, "Err", o.err)
    /\ UNCHANGED <<ev_stream, slept, delivered, grants>>

\* a sleep that is one minute short
EventSleepTickShort ==
    /\ ev_pc = "sleep"
    /\ slept < RUSTIFICATION_DELAY
    /\ slept' = slept + 1
    /\ ev_pc' = IF slept + 2 >= RUSTIFICATION_DELAY THEN "grant" ELSE "sleep"
    /\ UNCHANGED <<ev_stream, ev_cur, delivered, showcase_log, grants, ev_results>>

\* line 98: one minute of the sleep passes; after the last one line 101 runs
EventSleepTick ==
    /\ ev_pc = "sleep"
    /\ slept < RUSTIFICATION_DELAY
    /\ slept' = slept + 1
    /\ ev_pc' = IF slept + 1 = RUSTIFICATION_DELAY THEN "grant" ELSE "sleep"
    /\ UNCHANGED <<ev_stream, ev_cur, delivered, showcase_log, grants, ev_results>>

\* lines 101-117: add_member_role returned, its result is dropped, Ok(())
RoleGrantReturned ==
    /\ ev_pc = "grant"
    /\ \E ok \in BOOLEAN :
          grants' = Append(grants,
              [idx |-> delivered, guild |-> ev_cur.guild, member |-> ev_cur.id,
               role |-> "rustacean_role", ok |-> ok, after |-> slept])
    /\ HandlerReturns(delivered, ev_cur, "Ok", "none")
    /\ UNCHANGED <<ev_stream, slept, delivered, showcase_log>>

NextEvent ==
    \/ Deliver /\ UNCHANGED <<trimVars, mergeVars, ackVars>>
    \/ ShowcaseReturned /\ UNCHANGED <<trimVars, mergeVars, ackVars>>
    \/ EventSleepTick /\ UNCHANGED <<trimVars, mergeVars, ackVars>>
    \/ RoleGrantReturned /\ UNCHANGED <<trimVars, mergeVars, ackVars>>

InitEvent == EventCalled /\ TrimIdle /\ MergeIdle /\ AckIdle

SpecEvent == InitEvent /\ [][NextEvent]_vars

\* the timer fires and every platform call returns
SpecEventFair == SpecEvent /\ WF_vars(NextEvent)

(***************************************************************************)
(* Properties of trim_text                                                 *)
(***************************************************************************)
TrimDone == trim_pc = "done"

CharLimitHit == Len(body_in) + Len(text_end) > MessageLimit

\* text_body is the body after the char-limit step
LineLimitHit == LinesCount(text_body) > MAX_OUTPUT_LINES

\* Position of the n-th "\n" of s (s has at least n of them)
NthNewline(s, n) ==
    CHOOSE i \in 1..Len(s) :
        s[i] = 10 /\ Cardinality({j \in 1..i : s[j] = 10}) = n

\* k is "the first n lines of s joined by single newlines" (s has more than n
\* lines), stated on byte positions: k is s up to its n-th "\n", without that
\* "\n" and without every "\r" that stands directly before a "\n".
IsFirstLines(k, s, n) ==
    LET p == NthNewline(s, n)
        R == {j \in 1..(p - 1) : s[j] = 13 /\ s[j + 1] = 10}
    IN  /\ Len(k) = p - 1 - Cardinality(R)
        /\ \A i \in (1..(p - 1)) \ R :
               k[i - Cardinality({j \in R : j < i})] = s[i]

\* The longest prefix of s that ends on a char boundary and has at most n bytes
LongestBoundaryPrefix(s, n) ==
    LET top == IF n <= Len(s) THEN n ELSE Len(s)
        c == CHOOSE c \in 0..top :
                 /\ is_char_boundary(s, c)
                 /\ \A d \in (c + 1)..top : ~is_char_boundary(s, d)
    IN  SubSeq(s, 1, c)

\* C1: the string trim_text returns never has more than 2000 bytes.
C1_ResultWithinLimit == TrimDone => Len(trim_result) <= MessageLimit

\* C2: a body that fits (body + delimiter at most 2000 bytes, at most 45 lines)
\* is returned unchanged followed by the delimiter, and the notice future is
\* never awaited at any point of the call.
C2_FittingBodyUnchanged ==
    (~CharLimitHit /\ LinesCount(body_in) <= MAX_OUTPUT_LINES) =>
        /\ awaited = <<>>
        /\ trim_pc \in {"start", "done"}
        /\ TrimDone => trim_result = body_in \o text_end

C2_Witness ==
    /\ TrimDone
    /\ Len(body_in) + Len(text_end) = MessageLimit
    /\ LinesCount(body_in) = MAX_OUTPUT_LINES
    /\ trim_result = body_in \o text_end

\* C3: the notice future is awaited at most once in a call, whichever limits
\* are hit; when both are hit the notice of the result is the one awaited in
\* the char-limit step.
C3_NoticeAwaitedAtMostOnce ==
    /\ Len(awaited) <= 1
    /\ (TrimDone /\ CharLimitHit /\ LineLimitHit) =>
           /\ Len(awaited) = 1
           /\ text_body = CharCut(body_in, text_end, awaited[1])
           /\ IsSuffix(text_end \o awaited[1], trim_result)
           /\ Len(trim_result) = Len(text_body_owned) + Len(text_end) + Len(awaited[1])

C3_Witness ==
    /\ TrimDone /\ CharLimitHit /\ LineLimitHit
    /\ Len(awaited) = 1 /\ awaited[1] # <<>>

\* C4: the body part of the result has at most 45 lines; a body with more than
\* 45 lines (after the char cut) is returned as its first 45 lines joined by
\* single newlines, then the delimiter, then the notice.
C4_AtMostMaxLines ==
    TrimDone =>
        /\ LinesCount(text_body_owned) <= MAX_OUTPUT_LINES
        /\ IsPrefix(text_body_owned, trim_result)
        /\ LineLimitHit =>
              /\ IsFirstLines(text_body_owned, text_body, MAX_OUTPUT_LINES)
              /\ Len(awaited) = 1
              /\ trim_result = text_body_owned \o text_end \o awaited[1]

C4_Witness ==
    /\ TrimDone /\ LineLimitHit /\ ~CharLimitHit
    /\ LinesCount(body_in) = MAX_OUTPUT_LINES + 1
    /\ \E i \in 1..Len(body_in) : body_in[i] = 13

\* C5 as stated: when body + delimiter exceed 2000 bytes, the notice is not
\* empty and delimiter + notice fit in 2000 bytes, the result has at most 2000
\* bytes and is the longest char-boundary prefix of the body of at most
\* `available` bytes, then the delimiter, then the notice.
C5_Original ==
    (TrimDone /\ CharLimitHit /\ awaited # <<>>
        /\ awaited[1] # <<>>
        /\ Len(text_end) + Len(awaited[1]) <= MessageLimit) =>
        LET available == Max(0, MessageLimit - Len(text_end) - Len(awaited[1]))
        IN  /\ Len(trim_result) <= MessageLimit
            /\ trim_result =
                   LongestBoundaryPrefix(body_in, available) \o text_end \o awaited[1]

\* C5 amended: under the same conditions the body is cut to that prefix and the
\* result has at most 2000 bytes; the result is the prefix, the delimiter and
\* the notice when the prefix has at most 45 lines, and the first 45 lines of
\* the prefix, the delimiter and the notice when it has more.
C5_CutAtCharBoundary ==
    (TrimDone /\ CharLimitHit /\ awaited # <<>>
        /\ awaited[1] # <<>>
        /\ Len(text_end) + Len(awaited[1]) <= MessageLimit) =>
        LET available == Max(0, MessageLimit - Len(text_end) - Len(awaited[1]))
            prefix == LongestBoundaryPrefix(body_in, available)
        IN  /\ Len(trim_result) <= MessageLimit
            /\ text_body = prefix
            /\ IF LinesCount(prefix) > MAX_OUTPUT_LINES
               THEN /\ IsFirstLines(text_body_owned, prefix, MAX_OUTPUT_LINES)
                    /\ trim_result = text_body_owned \o text_end \o awaited[1]
               ELSE trim_result = prefix \o text_end \o awaited[1]

\* the cut point fell inside a multi-byte character and moved back
C5_Witness ==
    /\ TrimDone /\ CharLimitHit /\ awaited # <<>> /\ awaited[1] # <<>>
    /\ Len(text_end) + Len(awaited[1]) <= MessageLimit
    /\ Len(text_body) < MessageLimit - Len(text_end) - Len(awaited[1])
    /\ Len(body_in) = MessageLimit + 500
    /\ trim_result = text_body \o text_end \o awaited[1]

\* C6: the result is the (possibly shortened) body, then the whole delimiter,
\* then the notice exactly when a limit was exceeded (char limit, or line limit
\* after the char cut); with no limit exceeded it ends with the delimiter.
C6_DelimiterKeptNoticeIffExceeded ==
    TrimDone =>
        LET exceeded == CharLimitHit \/ LineLimitHit
            tail == IF exceeded THEN text_end \o awaited[1] ELSE text_end
        IN  /\ truncation_msg_maybe.ok <=> exceeded
            /\ exceeded <=> awaited # <<>>
            /\ IsSuffix(tail, trim_result)
            /\ Len(trim_result) - Len(tail) <= Len(body_in)
            /\ SubSeq(trim_result, 1, Len(trim_result) - Len(tail)) = text_body_owned
            /\ ~exceeded => trim_result = body_in \o text_end

C6_Witness ==
    /\ TrimDone /\ LineLimitHit /\ ~CharLimitHit
    /\ text_end # <<>> /\ awaited # <<>> /\ awaited[1] # <<>>
    /\ IsSuffix(text_end \o awaited[1], trim_result)

(***************************************************************************)
(* Properties of merge_output_and_errors                                   *)
(***************************************************************************)
MergeDone == merge_pc = "done"

AllWhitespace(s) == \A i \in 1..Len(s) : is_whitespace(s[i])

\* t is s without its leading and trailing whitespace
IsTrimmed(t, s) ==
    \E i \in 1..(Len(s) + 1) : \E j \in 0..Len(s) :
        /\ t = SubSeq(s, i, j)
        /\ \A k \in 1..(i - 1) : is_whitespace(s[k])
        /\ \A k \in (j + 1)..Len(s) : is_whitespace(s[k])
        /\ t # <<>> => ~is_whitespace(t[1]) /\ ~is_whitespace(t[Len(t)])

\* C7: the merge result is never empty; two inputs of whitespace only give
\* exactly one space.
C7_MergeNeverEmpty ==
    MergeDone =>
        /\ merged # <<>>
        /\ (AllWhitespace(output) /\ AllWhitespace(errors)) => merged = <<32>>

C7_Witness ==
    /\ MergeDone
    /\ output # <<>> /\ AllWhitespace(output) /\ AllWhitespace(errors)
    /\ merged = <<32>>

\* C8: with o and e the trimmed output and errors: only e non-empty gives e,
\* only o non-empty gives o, both non-empty give e, a blank line, then o.
C8_MergeOrder ==
    MergeDone =>
        \E o \in Strs : \E e \in Strs :
            /\ IsTrimmed(o, output)
            /\ IsTrimmed(e, errors)
            /\ (o = <<>> /\ e # <<>>) => merged = e
            /\ (o # <<>> /\ e = <<>>) => merged = o
            /\ (o # <<>> /\ e # <<>>) => merged = e \o <<10, 10>> \o o

C8_Witness ==
    /\ MergeDone
    /\ ~AllWhitespace(output) /\ ~AllWhitespace(errors)
    /\ is_whitespace(output[1])
    /\ Len(merged) = Len(output) + Len(errors) + 1
(***************************************************************************)
(* Properties of the acknowledgment controller                             *)
(***************************************************************************)
AckDone == ack_pc = "done"

\* C9: no failing platform call of acknowledge_fail or acknowledge_success
\* reaches the caller: neither ever returns an error.
C9_NoFailurePropagates ==
    (AckDone /\ ack_fn \in {"acknowledge_fail", "acknowledge_success"}) =>
        ack_ret # "Err"

\* C10: for a command-execution failure acknowledge_fail makes exactly one
\* platform call, chosen by mode (Prefix: the cross reaction, no reply;
\* Application: one reply of the marker and the error text, no reaction), never
\* a second call, never on_error, and it returns normally whatever the call's
\* outcome.
C10_FailRenderedOnce ==
    (ack_fn = "acknowledge_fail" /\ error.class = "Command") =>
        /\ Len(calls) <= 1
        /\ on_error_calls = 0
        /\ ack_ret \in {"none", "unit"}
        /\ calls # <<>> =>
              /\ AckDone
              /\ ack_mode = "Prefix" =>
                    calls[1].op = "react" /\ calls[1].arg = <<"cross">>
              /\ ack_mode = "Application" =>
                    calls[1].op = "say" /\ calls[1].arg = <<"cross", " ", "error">>
        /\ AckDone => Len(calls) = 1 /\ ack_ret = "unit"

C10_Witness ==
    /\ ack_fn = "acknowledge_fail" /\ error.class = "Command"
    /\ ack_mode = "Prefix"
    /\ AckDone
    /\ calls # <<>> /\ ~calls[1].ok
    /\ ack_ret = "unit"

\* the calls of kind `op` made so far
CallsOf(op) == {i \in 1..Len(calls) : calls[i].op = op}

\* C11: in an Application context acknowledge_success deletes the reply only
\* when it was sent, only after the whole 3-second delay, and at most once;
\* once the reply was sent the call does not end without attempting the delete;
\* a failing delete is not returned to the caller.
C11_SendWaitDelete ==
    (ack_fn = "acknowledge_success" /\ ack_mode = "Application") =>
        /\ Cardinality(CallsOf("delete")) <= 1
        /\ CallsOf("delete") # {} =>
              /\ calls[1].op = "say" /\ calls[1].ok
              /\ elapsed = ACK_DELETE_DELAY
        /\ (AckDone /\ calls # <<>> /\ calls[1].op = "say" /\ calls[1].ok) =>
              CallsOf("delete") # {}
        /\ (AckDone /\ \E i \in CallsOf("delete") : ~calls[i].ok) =>
              ack_ret = "Ok"

\* C15: an error that is no command-execution failure goes from
\* acknowledge_fail to on_error, once, and gets no reaction and no reply with
\* the failure marker. For an argument-parse error on_error sends exactly one
\* reply: the fixed missing-code-block text for a code block error (with or
\* without help text), else the error and the help text when the command has
\* help text, else the error alone; a failed send is logged and on_error
\* returns normally.
C15_OtherErrorsToOnError ==
    /\ (ack_fn = "acknowledge_fail" /\ error.class # "Command") =>
          /\ ack_pc # "start" => on_error_calls = 1
          /\ CallsOf("react") = {}
          /\ \A i \in 1..Len(calls) : "cross" \notin {calls[i].arg[k] : k \in 1..Len(calls[i].arg)}
          /\ \A i \in 1..Len(logs) : logs[i] # "Reacting with red cross because of error"
    /\ (ack_fn \in {"acknowledge_fail", "on_error"} /\ error.class = "ArgumentParse") =>
          /\ Len(calls) <= 1
          /\ ack_ret \in {"none", "unit"}
          /\ AckDone =>
                /\ Len(calls) = 1
                /\ calls[1].op = "say"
                /\ error.codeblock => calls[1].arg = <<"Missing code block">>
                /\ (~error.codeblock /\ has_help) =>
                      calls[1].arg = <<"**", "error", "**", "\n", "help">>
                /\ (~error.codeblock /\ ~has_help) => calls[1].arg = <<"error">>
                /\ ~calls[1].ok => logs[Len(logs)] = "say failed"
                /\ ack_ret = "unit"

C15_Witness ==
    /\ ack_fn = "acknowledge_fail" /\ AckDone
    /\ error.class = "ArgumentParse" /\ error.codeblock /\ has_help
    /\ calls # <<>> /\ ~calls[1].ok
    /\ calls[1].arg = <<"Missing code block">>

\* the failed calls of acknowledge_fail / acknowledge_success that are cosmetic:
\* a reaction add, the send of the acknowledgment reply, the delete of the reply
CosmeticFailures ==
    {i \in 1..Len(calls) : ~calls[i].ok /\ calls[i].op \in {"react", "say", "delete"}}

\* the log::warn! entries that report a failed platform call
FailureLogs ==
    {i \in 1..Len(logs) :
        logs[i] \in {"Failed to react with red cross",
                     "Failed to send failure acknowledgment slash command response",
                     "say failed"}}

\* C16: every cosmetic failure of acknowledge_fail and acknowledge_success is
\* logged as a warning, is not returned to the caller and is not retried.
C16_CosmeticFailuresLogged ==
    (ack_fn \in {"acknowledge_fail", "acknowledge_success"} /\ AckDone) =>
        /\ Cardinality(FailureLogs) >= Cardinality(CosmeticFailures)
        /\ (calls # <<>> /\ Len(calls) \in CosmeticFailures) => ack_ret # "Err"
        /\ \A i \in CosmeticFailures : \A j \in 1..Len(calls) :
               j # i => calls[j].op # calls[i].op

\* C17: acknowledge_success in a Prefix context adds one reaction (the custom
\* emoji if found, else the fallback) and nothing else; in an Application
\* context it does nothing: no message sent, no delay, no delete.
C17_SuccessByMode ==
    ack_fn = "acknowledge_success" =>
        /\ ack_mode = "Prefix" =>
              /\ Len(calls) <= 1
              /\ elapsed = 0
              /\ AckDone =>
                    /\ Len(calls) = 1
                    /\ calls[1].op = "react"
                    /\ calls[1].arg = (IF emoji # <<>> THEN emoji ELSE <<FallbackEmoji>>)
        /\ ack_mode = "Application" => calls = <<>> /\ elapsed = 0

\* C18: the body part of the result is a prefix of the body that was passed
\* in: the kept bytes, line terminators included, are the original ones.
C18_BodyPartIsPrefix ==
    TrimDone =>
        /\ IsPrefix(text_body_owned, trim_result)
        /\ IsPrefix(text_body_owned, body_in)

\* C19: when body + delimiter exceed 2000 bytes, the cut search starts at
\* available = max(0, 2000 - len(delimiter) - len(notice)), which is at most
\* len(body); it stops after at most 3 decrements at a value >= 0 that is a
\* char boundary of the body, and the body is sliced there.
C19_CutSearchTerminates ==
    (CharLimitHit /\ awaited # <<>>) =>
        LET available == Max(0, MessageLimit - Len(text_end) - Len(awaited[1]))
            cut == Len(text_body)
        IN  /\ available <= Len(body_in)
            /\ cut >= 0 /\ cut <= available
            /\ available - cut <= 3
            /\ is_char_boundary(body_in, cut)
            /\ \A d \in (cut + 1)..available : ~is_char_boundary(body_in, d)
            /\ text_body = SubSeq(body_in, 1, cut)

\* the search starts on the last byte of a 4-byte character and takes 3 steps
C19_Witness ==
    /\ CharLimitHit /\ awaited # <<>> /\ TrimDone
    /\ Len(text_body) > 0
    /\ Max(0, MessageLimit - Len(text_end) - Len(awaited[1])) - Len(text_body) = 3

(***************************************************************************)
(* Properties of event_handler                                             *)
(***************************************************************************)
IsMessageEvent(ev) == ev.type \in {"MessageUpdate", "MessageDelete"}

\* the showcase calls of the handler call `idx` that failed
FailedShowcase(idx) ==
    {j \in 1..Len(showcase_log) : showcase_log[j].idx = idx /\ ~showcase_log[j].ok}

GrantsOf(idx) == {j \in 1..Len(grants) : grants[j].idx = idx}

\* C12: event_handler returns an error exactly when the event is a
\* MessageUpdate or MessageDelete whose showcase call failed, and then it is
\* that call's error, unchanged; every other call returns Ok, a join whose role
\* grant failed and a message event without a showcase link included, and for
\* the latter no collaborator call was made.
C12_ErrIffShowcaseFailed ==
    \A i \in 1..Len(ev_results) :
        LET r == ev_results[i]
        IN  /\ (r.ret = "Err") <=> (IsMessageEvent(r.ev) /\ FailedShowcase(r.idx) # {})
            /\ r.ret = "Err" =>
                   \A j \in FailedShowcase(r.idx) : showcase_log[j].err = r.err
            /\ r.ev.type = "GuildMemberAddition" => r.ret = "Ok"
            /\ (IsMessageEvent(r.ev) /\ r.ev.id \notin Linked) =>
                   /\ r.ret = "Ok"
                   /\ \A j \in 1..Len(showcase_log) :
                          showcase_log[j].idx = r.idx => ~showcase_log[j].called

\* a failed showcase call was returned as "e2" and a join whose grant failed
\* returned Ok
C12_Witness ==
    /\ \E i \in 1..Len(ev_results) :
          /\ ev_results[i].ret = "Err"
          /\ ev_results[i].err = "e2"
          /\ IsMessageEvent(ev_results[i].ev)
    /\ \E i \in 1..Len(ev_results) :
          /\ ev_results[i].ev.type = "GuildMemberAddition"
          /\ ev_results[i].ret = "Ok"
          /\ \E j \in GrantsOf(ev_results[i].idx) : ~grants[j].ok

\* the handler call `idx` is for a join and is still running
JoinInFlight(idx) ==
    /\ delivered = idx
    /\ ev_cur.type = "GuildMemberAddition"
    /\ ev_pc \in {"sleep", "grant"}

C13_GrantSafety ==
    /\ \A j \in 1..Len(grants) :
          /\ grants[j].after = RUSTIFICATION_DELAY
          /\ grants[j].role = "rustacean_role"
          /\ GrantsOf(grants[j].idx) = {j}
          /\ \E i \in 1..Len(ev_results) :
                /\ ev_results[i].idx = grants[j].idx
                /\ ev_results[i].ev.type = "GuildMemberAddition"
                /\ ev_results[i].ev.id = grants[j].member
                /\ ev_results[i].ev.guild = grants[j].guild
    /\ \A i \in 1..Len(ev_results) :
          ev_results[i].ev.type = "GuildMemberAddition" =>
              /\ ev_results[i].ret = "Ok"
              /\ Cardinality(GrantsOf(ev_results[i].idx)) = 1
    /\ \A i \in 1..Len(ev_results) :
          ev_results[i].ev.type # "GuildMemberAddition" =>
              GrantsOf(ev_results[i].idx) = {}
    /\ ev_pc = "sleep" => (slept < RUSTIFICATION_DELAY /\ GrantsOf(delivered) = {})
    /\ ev_pc = "grant" => (slept = RUSTIFICATION_DELAY /\ GrantsOf(delivered) = {})

\* C13: every join gets exactly one role-grant attempt, for the joined member
\* in the joined guild with the configured role, made when the 30 minutes have
\* fully elapsed and never earlier; once the handler waits, the attempt
\* eventually happens; the attempt's outcome is dropped, there is no second
\* attempt, and the handler returns Ok.
C13_OneGrantAfterDelay ==
    /\ []C13_GrantSafety
    /\ \A idx \in 1..MaxEvents :
          JoinInFlight(idx) ~> (GrantsOf(idx) # {} /\ ~JoinInFlight(idx))

\* a join's only grant failed after the full delay and the handler returned Ok
C13_Witness ==
    \E i \in 1..Len(ev_results) :
        /\ ev_results[i].ev.type = "GuildMemberAddition"
        /\ ev_results[i].ret = "Ok"
        /\ \E j \in GrantsOf(ev_results[i].idx) :
              /\ ~grants[j].ok
              /\ grants[j].after = RUSTIFICATION_DELAY

\* the wait of a join runs in a task of its own: the handler call that
\* received the join has returned while the wait is in progress
C14_WaitIsOwnTask ==
    ev_pc = "sleep" => \E i \in 1..Len(ev_results) : ev_results[i].idx = delivered

\* while a join waits, the next event can be handed to the handler
C14_DispatchNotBlocked ==
    (ev_pc = "sleep" /\ ev_stream # <<>>) => ENABLED Deliver

\* C14: a suspending wait never blocks event dispatch: while the handler of a
\* join is in its 30-minute delay the next event can be delivered, and the wait
\* runs as its own fire-and-forget task, not as a sleep inside the handler call.
C14_SuspendingWaitNeverBlocks ==
    /\ C14_WaitIsOwnTask
    /\ C14_DispatchNotBlocked

============================================================================
